---- MODULE Spec2Model ----
(***************************************************************************)
(* Model of the three pcs wrapper modules of ansible-role-postgres-ha:     *)
(*   library/pcs_cluster.py         cluster membership                     *)
(*   library/pcs_quorum_qdevice.py  quorum device                          *)
(*   library/pcs_stonith_level.py   fencing levels                         *)
(* One invocation of a module is a run of its run_module(): the parameters *)
(* are drawn when the invocation starts, every probe of the host (the pcs  *)
(* executable, its version, the configuration files) draws its answer when *)
(* the code makes it, and every command handed to module.run_command is    *)
(* appended to `issued`.                                                   *)
(***************************************************************************)
EXTENDS FiniteSets, Integers, Sequences, TLC

\* ------------------------------------------------------------------ bounds
\* longest node_list (number of whitespace separated tokens)
MaxTokens == 2
\* most redundant rings (ring1..) a node_list token carries
MaxRings == 2
\* most redundant rings a node block of corosync.conf carries
MaxDetectedRings == 1
\* longest node_list passed along with state=absent
MaxAbsentTokens == 1

\* ------------------------------------------------------------ input domains
Nodes == {"A", "B", "C"}
States == {"present", "absent"}
NodeChanges == {"none", "add", "remove"}
\* the choices of `transport`; the code only tells 'default' from the others
Transports == {"default", "knet"}
TransportOptions == {"", "link_mode=passive"}
ClusterNames == {"", "test-cluster"}
\* what 'pcs --version' prints, cut to major.minor
PcsVersions == {"0.9", "0.10", "0.11"}

\* address of node n on ring k (k >= 1); ring 0 is the node name itself
Addr(n, k) == IF k = 0 THEN n ELSE n \o ToString(k)

\* one token of node_list: name[,ring1[,ring2...]] as the sequence of its
\* comma separated fields
Token(n, rings) == [i \in 1..(rings + 1) |-> Addr(n, i - 1)]

\* node lists of at most l tokens: every token of one list carries the same
\* number of rings
NodeListsUpTo(l) ==
    { [i \in 1..Len(names) |-> Token(names[i], r)] :
        names \in UNION { [1..k -> Nodes] : k \in 0..l }, r \in 0..MaxRings }
NodeLists == NodeListsUpTo(MaxTokens)

\* ------------------------------------------------- corosync.conf (detected)
NoAddr == "<none>"

\* a node { ... } block: its ring0_addr (NoAddr when the key is missing) and
\* its ringN_addr values
NodeBlock(n, rings) == [ring0 |-> n, more |-> [i \in 1..rings |-> Addr(n, i)]]
AnonBlock == [ring0 |-> NoAddr, more |-> << >>]

\* contents of /etc/corosync/corosync.conf: the set of its node blocks
CorosyncConfs ==
    { { NodeBlock(n, r) : n \in S } \cup anon :
        S \in SUBSET Nodes, r \in 0..MaxDetectedRings, anon \in { {}, {AnonBlock} } }

\* what the probe of /etc/corosync/corosync.conf can find: no file, a file
\* that cannot be opened, or a file with its node blocks
CorosyncFiles ==
    { [kind |-> "missing", blocks |-> {}], [kind |-> "unreadable", blocks |-> {}] }
    \cup { [kind |-> "file", blocks |-> c] : c \in CorosyncConfs }

\* ---------------------------------------------------------------- state
VARIABLES
    facet,      \* the module that is running: "none", "cluster", ...
    pc,         \* position of the invocation inside run_module
    params,     \* module.params
    check_mode, \* module.check_mode
    pcs_version,
    files,      \* cib_xml_exists, cluster_conf_exists, corosync_conf_exists
    detected,   \* detected_node_list_set
    re_node_list_set, \* the detected rings of every detected node
    locals,     \* the other local variables of the running module
    todo,       \* nodes the running for loop has still to visit
    cmd,        \* the command built last
    result,     \* the result dictionary
    output,     \* what exit_json / fail_json was given
    issued,     \* commands run so far, in order (the version query excluded)
    host_conf   \* the node blocks of /etc/corosync/corosync.conf where the
                \* file is followed from one invocation to the next

vars == << facet, pc, params, check_mode, pcs_version, files, detected,
           re_node_list_set, locals, todo, cmd, result, output, issued, host_conf >>

NoCmd == [verb |-> "none", words |-> << >>]
NoOutput == [status |-> "running"]
NoFiles == [cib_xml |-> FALSE, cluster_conf |-> FALSE, corosync_conf |-> FALSE]
\* probed: the configuration sources have been probed; parsed: the source
\* the module reads could be read
NoLocals == [probed |-> FALSE, parsed |-> FALSE]

Init ==
    /\ facet = "none"
    /\ pc = "idle"
    /\ params = [state |-> "present"]
    /\ check_mode = FALSE
    /\ pcs_version = ""
    /\ files = NoFiles
    /\ detected = {}
    /\ re_node_list_set = << >>
    /\ locals = NoLocals
    /\ todo = {}
    /\ cmd = NoCmd
    /\ result = [changed |-> FALSE]
    /\ output = NoOutput
    /\ issued = << >>
    /\ host_conf = {}

\* ------------------------------------------------------- exit_json/fail_json
ExitJson(r) == [status |-> "exit"] @@ r
FailJson(r) == [status |-> "fail"] @@ r

Finished == pc = "done"
Exited == Finished /\ output.status = "exit"
Failed == Finished /\ output.status = "fail"
FailedWith(m) == Failed /\ output.msg = m

\* ------------------------------------------------------------- pcs_cluster
\* module.params; `token` only adds an option to the setup command and is
\* left out
ClusterParams ==
    [ state : {"present"},
      node_list : NodeLists,
      cluster_name : ClusterNames,
      transport : Transports,
      transport_options : TransportOptions,
      allowed_node_changes : NodeChanges ]
    \cup
    [ state : {"absent"},
      node_list : NodeListsUpTo(MaxAbsentTokens),
      cluster_name : ClusterNames,
      transport : Transports,
      transport_options : TransportOptions,
      allowed_node_changes : NodeChanges ]

\* node_list_set: the first field of every token
NodeListSet(node_list) == { node_list[i][1] : i \in 1..Len(node_list) }

\* node_list_set_detailed[n]: the fields of the LAST token named n, as
\* ring0, ring1, ... (a later token of the same name overwrites the entry)
NodeListSetDetailed(node_list) ==
    [ n \in NodeListSet(node_list) |->
        LET last == CHOOSE i \in 1..Len(node_list) :
                        /\ node_list[i][1] = n
                        /\ \A j \in 1..Len(node_list) : node_list[j][1] = n => j <= i
        IN node_list[last] ]

\* detected_node_list_set: the ring0_addr of every node block that has one
DetectedNodeListSet(conf) == { b.ring0 : b \in { c \in conf : c.ring0 # NoAddr } }

\* re_node_list_set: ring1.. of every node block that has a ring0_addr
ReNodeListSet(conf) ==
    [ n \in DetectedNodeListSet(conf) |-> (CHOOSE b \in conf : b.ring0 = n).more ]

\* ',' in module.params['node_list']
HasComma(node_list) == \E i \in 1..Len(node_list) : Len(node_list[i]) > 1

Word(k, v) == [kind |-> k, val |-> v]

RECURSIVE Flatten(_)
Flatten(ss) == IF ss = << >> THEN << >> ELSE Head(ss) \o Flatten(Tail(ss))

\* node_list as the caller wrote it: each token is its name and, comma
\* joined to it, its rings
RawNodeWords(node_list) ==
    Flatten([ i \in 1..Len(node_list) |->
        [ j \in 1..Len(node_list[i]) |->
            Word(IF j = 1 THEN "name" ELSE "ring", node_list[i][j]) ] ])

\* mutant: ring0 is carried by the name alone
AddrWordsFromRing1(n, rings) ==
    << Word("name", n) >> \o [ j \in 1..(Len(rings) - 1) |-> Word("addr", rings[j + 1]) ]

\* one node in the pcs 0.10 form: the name, then addr= for every entry of
\* its node_list_set_detailed record, ring0 included
AddrWords(n, rings) ==
    << Word("name", n) >> \o [ j \in 1..Len(rings) |-> Word("addr", rings[j]) ]

Orders(S) ==
    { s \in [1..Cardinality(S) -> S] : \A i, j \in 1..Cardinality(S) : s[i] = s[j] => i = j }

TransportWords(flag, p) ==
    IF p.transport = "default" THEN << >>
    ELSE << Word("opt", flag), Word("opt", p.transport) >>

\* 'pcs cluster setup --name ...' of pcs 0.9
SetupCmd09(p) ==
    [ verb |-> "cluster setup",
      words |-> << Word("opt", "--name"), Word("opt", p.cluster_name) >>
                \o RawNodeWords(p.node_list)
                \o TransportWords("--transport", p) ]

\* 'pcs cluster setup ...' of pcs 0.10; order is the iteration order of
\* node_list_set
SetupCmd010(p, order) ==
    [ verb |-> "cluster setup",
      words |-> << Word("opt", p.cluster_name) >>
                \o ( IF HasComma(p.node_list)
                     THEN Flatten([ i \in 1..Len(order) |->
                            AddrWords(order[i], NodeListSetDetailed(p.node_list)[order[i]]) ])
                     ELSE RawNodeWords(p.node_list) )
                \o TransportWords("transport", p)
                \o ( IF p.transport_options = "" THEN << >>
                     ELSE << Word("opt", p.transport_options) >> ) ]

\* 'pcs cluster node add ...'
NodeAddCmd(n, rings, version) ==
    [ verb |-> "cluster node add",
      words |-> IF Len(rings) > 1 /\ version = "0.9"
                  THEN << Word("name", n), Word("ring", rings[2]) >>
                ELSE IF Len(rings) > 1 /\ version = "0.10"
                  THEN AddrWords(n, rings)
                ELSE << Word("name", n) >> ]

NodeRemoveCmd(n) == [verb |-> "cluster node remove", words |-> << Word("name", n) >>]

DestroyCmd == [verb |-> "cluster destroy", words |-> << >>]

\* mutant: only corosync.conf counts as a configuration
AnyConfOnlyCorosync(f) == f.corosync_conf

\* cluster_conf_exists or corosync_conf_exists or cib_xml_exists
AnyConf(f) == f.cluster_conf \/ f.corosync_conf \/ f.cib_xml

Finish(out) ==
    /\ pc' = "done"
    /\ output' = out

\* lines 144-159: the parameters arrive
ClusterInvoke ==
    /\ pc = "idle" /\ facet = "none"
    /\ facet' = "cluster"
    /\ \E p \in ClusterParams : params' = p
    /\ \E c \in BOOLEAN : check_mode' = c
    /\ pc' = "validate"
    /\ UNCHANGED << pcs_version, files, detected, re_node_list_set, locals, todo, cmd,
                    result, output, issued >>
    /\ UNCHANGED host_conf

MsgRequired == "When creating/expanding/shrinking cluster you must specify both node_list and cluster_name"
MsgNoPcs == "'pcs' executable not found. Install 'pcs'."
MsgVersionFailed == "pcs --version exited with non-zero exit code"

\* lines 160-165: required parameters, then find_executable('pcs')
ClusterValidate ==
    /\ facet = "cluster" /\ pc = "validate"
    /\ IF params.state = "present" /\ (params.node_list = << >> \/ params.cluster_name = "")
       THEN Finish(FailJson([msg |-> MsgRequired]))
       ELSE \E found \in BOOLEAN :
              IF found THEN pc' = "version" /\ UNCHANGED output
              ELSE Finish(FailJson([msg |-> MsgNoPcs]))
    /\ UNCHANGED << facet, params, check_mode, pcs_version, files, detected,
                    re_node_list_set, locals, todo,
                    cmd, result, issued >>
    /\ UNCHANGED host_conf

\* lines 167-172: 'pcs --version'; a non-zero exit is fatal (line 172 builds
\* its message from the integer rc, which raises before fail_json is
\* reached: the module fails either way)
ClusterVersion ==
    /\ facet = "cluster" /\ pc = "version"
    /\ \/ \E v \in PcsVersions :
            /\ pcs_version' = v
            /\ pc' = "probe"
            /\ UNCHANGED output
       \/ /\ Finish(FailJson([msg |-> MsgVersionFailed]))
          /\ UNCHANGED pcs_version
    /\ UNCHANGED << facet, params, check_mode, files, detected, re_node_list_set, locals,
                    todo, cmd, result, issued >>
    /\ UNCHANGED host_conf

MsgNoOptions09 == "using transport_options is not supported with pcs 0.9"
MsgOptionsNeedTransport == "using option transport_option must not be used without option transport"
MsgUnsupported == "unsupported version of pcs"
MsgCreateFailed == "Failed to create cluster using command"
MsgAddFailed == "Failed to add node to cluster using command"
MsgRemoveFailed == "Failed to remove node from cluster using command"
MsgDestroyFailed == "Failed to delete cluster using command"
MsgAbsent == "No change needed, cluster is not present."
MsgPresent == "No change needed, cluster is present."
MsgConflict == "'Detected node list' and 'Requested node list' are different, but changes are not allowed."

\* lines 249-254 and 293-298: the setup or destroy command is built; in
\* check mode the branch falls through to line 317, otherwise the command
\* is run and its exit code decides between exit_json and fail_json
Dispatch(c, r, failed) ==
    /\ cmd' = c
    /\ result' = r
    /\ IF check_mode
       THEN Finish(ExitJson(r)) /\ UNCHANGED issued
       ELSE /\ issued' = Append(issued, c)
            /\ \E rc \in {0, 1} :
                 IF rc = 0 THEN Finish(ExitJson([changed |-> TRUE]))
                 ELSE Finish(FailJson([msg |-> failed, cmd |-> c]))

\* lines 223-254: no configuration at all and state=present
ClusterCreate ==
    /\ LET r == [changed |-> TRUE] IN
       IF pcs_version = "0.9"
       THEN IF params.transport_options # ""
            THEN /\ Finish(FailJson([msg |-> MsgNoOptions09]))
                 /\ result' = r
                 /\ UNCHANGED << cmd, issued >>
            ELSE Dispatch(SetupCmd09(params), r, MsgCreateFailed)
       ELSE IF pcs_version = "0.10"
       THEN IF params.transport_options # "" /\ params.transport = "default"
            THEN /\ Finish(FailJson([msg |-> MsgOptionsNeedTransport]))
                 /\ result' = r
                 /\ UNCHANGED << cmd, issued >>
            ELSE \E order \in Orders(NodeListSet(params.node_list)) :
                    Dispatch(SetupCmd010(params, order), r, MsgCreateFailed)
       ELSE /\ Finish(FailJson([msg |-> MsgUnsupported]))
            /\ result' = r
            /\ UNCHANGED << cmd, issued >>
    /\ UNCHANGED todo

\* mutant: the operands of the set difference of the remove branch swapped
ClusterChangeNodesSwapped(det) ==
    /\ LET want == NodeListSet(params.node_list) IN
       IF params.allowed_node_changes = "add"
       THEN /\ result' = [changed |-> TRUE, detected_nodes |-> det,
                          nodes_to_add |-> want \ det]
            /\ todo' = want \ det
       ELSE /\ result' = [changed |-> TRUE, detected_nodes |-> det,
                          nodes_to_remove |-> want \ det]
            /\ todo' = want \ det
    /\ pc' = "loop"
    /\ UNCHANGED << cmd, output, issued >>

\* lines 255-287: configured, node sets differ, changes allowed: the for
\* loop over the difference is entered
ClusterChangeNodes(det) ==
    /\ LET want == NodeListSet(params.node_list) IN
       IF params.allowed_node_changes = "add"
       THEN /\ result' = [changed |-> TRUE, detected_nodes |-> det,
                          nodes_to_add |-> want \ det]
            /\ todo' = want \ det
       ELSE /\ result' = [changed |-> TRUE, detected_nodes |-> det,
                          nodes_to_remove |-> det \ want]
            /\ todo' = det \ want
    /\ pc' = "loop"
    /\ UNCHANGED << cmd, output, issued >>

\* lines 288-298: state=absent and some configuration exists
ClusterDestroy ==
    /\ Dispatch(DestroyCmd, [changed |-> TRUE], MsgDestroyFailed)
    /\ UNCHANGED todo

\* mutant: the conflict branch is missing, the difference falls through to
\* the final else
ClusterNoChangeLenient(f, det) ==
    /\ UNCHANGED << todo, cmd, result, issued >>
    /\ IF params.state = "absent" /\ ~AnyConf(f)
       THEN Finish(ExitJson([changed |-> FALSE, msg |-> MsgAbsent]))
       ELSE IF params.state = "present" /\ f.corosync_conf
               /\ NodeListSet(params.node_list) = det
       THEN Finish(ExitJson([changed |-> FALSE, msg |-> MsgPresent]))
       ELSE Finish(ExitJson([changed |-> FALSE]))

\* lines 299-314: the branches that change nothing
ClusterNoChange(f, det) ==
    /\ UNCHANGED << todo, cmd, result, issued >>
    /\ IF params.state = "absent" /\ ~AnyConf(f)
       THEN Finish(ExitJson([changed |-> FALSE, msg |-> MsgAbsent]))
       ELSE IF params.state = "present" /\ f.corosync_conf
               /\ NodeListSet(params.node_list) = det
       THEN Finish(ExitJson([changed |-> FALSE, msg |-> MsgPresent]))
       ELSE IF params.state = "present" /\ f.corosync_conf
               /\ params.allowed_node_changes = "none"
               /\ NodeListSet(params.node_list) # det
       THEN Finish(FailJson([msg |-> MsgConflict,
                             node_list_set |-> NodeListSet(params.node_list),
                             detected_node_list_set |-> det]))
       ELSE Finish(ExitJson([changed |-> FALSE]))

\* mutant: the add/remove branch does not compare the node sets
ClusterDecideNoCompare(f, det) ==
    IF params.state = "present" /\ ~AnyConf(f)
      THEN ClusterCreate
    ELSE IF params.state = "present" /\ f.corosync_conf
            /\ params.allowed_node_changes # "none"
      THEN ClusterChangeNodes(det)
    ELSE IF params.state = "absent" /\ AnyConf(f)
      THEN ClusterDestroy
    ELSE ClusterNoChange(f, det)

\* lines 223-314: the if / elif chain of run_module, on the probed files f
\* and the detected node set det
ClusterDecide(f, det) ==
    IF params.state = "present" /\ ~AnyConf(f)
      THEN ClusterCreate
    ELSE IF params.state = "present" /\ f.corosync_conf
            /\ params.allowed_node_changes # "none"
            /\ NodeListSet(params.node_list) # det
      THEN ClusterChangeNodes(det)
    ELSE IF params.state = "absent" /\ AnyConf(f)
      THEN ClusterDestroy
    ELSE ClusterNoChange(f, det)

MsgCrash == "unhandled exception"

\* lines 174-314: the three configuration files are probed, corosync.conf
\* is parsed and the if / elif chain is taken. An unreadable corosync.conf
\* leaves re_nodes_list unbound, and line 203 raises.
ClusterReconcileOn(confs) ==
    /\ facet = "cluster" /\ pc = "probe"
    /\ \E cib, cconf \in BOOLEAN, conf \in confs :
         IF conf.kind = "unreadable"
         THEN /\ files' = [cib_xml |-> cib, cluster_conf |-> cconf, corosync_conf |-> TRUE]
              /\ locals' = [probed |-> TRUE, parsed |-> FALSE]
              /\ Finish(FailJson([msg |-> MsgCrash]))
              /\ UNCHANGED << detected, re_node_list_set, todo, cmd, result, issued >>
         ELSE LET f == [cib_xml |-> cib, cluster_conf |-> cconf,
                        corosync_conf |-> conf.kind = "file"]
                  det == DetectedNodeListSet(conf.blocks)
              IN /\ files' = f
                 /\ detected' = det
                 /\ re_node_list_set' = ReNodeListSet(conf.blocks)
                 /\ locals' = [probed |-> TRUE, parsed |-> TRUE]
                 /\ ClusterDecide(f, det)
    /\ UNCHANGED << facet, params, check_mode, pcs_version, host_conf >>

\* the probes may find anything
ClusterReconcile == ClusterReconcileOn(CorosyncFiles)

\* lines 260-287: one pass of the for loop: the command for one node of
\* the difference (any one: a set has no order) is built and, outside
\* check mode, run; a zero exit ends the module with exit_json(changed=True),
\* a non-zero exit with fail_json. After the last node line 317 reports
\* result.
ClusterLoopOn(rcs) ==
    /\ facet = "cluster" /\ pc = "loop"
    /\ IF todo = {}
       THEN /\ Finish(ExitJson(result))
            /\ UNCHANGED << todo, cmd, issued >>
       ELSE \E n \in todo :
              LET c == IF params.allowed_node_changes = "add"
                       THEN NodeAddCmd(n, NodeListSetDetailed(params.node_list)[n], pcs_version)
                       ELSE NodeRemoveCmd(n)
              IN /\ cmd' = c
                 /\ todo' = todo \ {n}
                 /\ IF check_mode
                    THEN UNCHANGED << pc, output, issued >>
                    ELSE /\ issued' = Append(issued, c)
                         /\ \E rc \in rcs :
                              IF rc = 0 THEN Finish(ExitJson([changed |-> TRUE]))
                              ELSE Finish(FailJson(
                                     [msg |-> IF params.allowed_node_changes = "add"
                                              THEN MsgAddFailed ELSE MsgRemoveFailed,
                                      cmd |-> c]))
    /\ UNCHANGED << facet, params, check_mode, pcs_version, files, detected,
                    re_node_list_set, locals, result >>

\* the command may exit with any code
ClusterLoop == ClusterLoopOn({0, 1}) /\ UNCHANGED host_conf

ClusterNext ==
    \/ ClusterInvoke
    \/ ClusterValidate
    \/ ClusterVersion
    \/ ClusterReconcile
    \/ ClusterLoop

\* ------------------------------------------------------ pcs_quorum_qdevice
QdeviceHosts == {"qd1", "qd2"}
Algorithms == {"ffsplit", "lms"}
QdeviceChanges == {"none", "update"}
\* most device { ... } blocks in corosync.conf
MaxDeviceBlocks == 1

\* module.params; qdevice "" stands for a qdevice that was not given
QdeviceParams ==
    [ state : States,
      qdevice : QdeviceHosts \cup {""},
      algorithm : Algorithms,
      allowed_qdevice_changes : QdeviceChanges ]

\* a device block: what findall returns for `host: ...` and for
\* `algorithm: ...` inside it (empty when the key is missing)
DeviceBlocks ==
    [ host : { << >> } \cup { << h >> : h \in QdeviceHosts },
      algorithm : { << >> } \cup { << a >> : a \in Algorithms } ]

QdeviceFiles ==
    { [kind |-> "missing", devices |-> << >>], [kind |-> "unreadable", devices |-> << >>] }
    \cup { [kind |-> "file", devices |-> d] :
             d \in UNION { [1..l -> DeviceBlocks] : l \in 0..MaxDeviceBlocks } }

MsgQdeviceRequired == "When creating/updating qdevice you must specify qdevice name"
MsgUnsupportedQdevice == "unsupported version of pcs (only version 0.10 is supported)"
MsgNeedCluster == "When creating/updating qdevice you must have a cluster set"
MsgCannotOpen == "Could not open corosync.conf"
MsgQdeviceDiffers == "'Detected qdevice' and 'Requested qdevice' are different, but changes are not allowed."
MsgAlgorithmDiffers == "'Detected algorithm' and 'Requested algorithm' are different, but changes are not allowed."
MsgQdeviceFailed == "Failed to setup qdevice using command"

\* lines 88-102
QdeviceInvoke ==
    /\ pc = "idle" /\ facet = "none"
    /\ facet' = "qdevice"
    /\ \E p \in QdeviceParams : params' = p
    /\ \E c \in BOOLEAN : check_mode' = c
    /\ pc' = "validate"
    /\ UNCHANGED << pcs_version, files, detected, re_node_list_set, locals, todo, cmd,
                    result, output, issued >>
    /\ UNCHANGED host_conf

\* lines 103-108: required parameter, then find_executable('pcs')
QdeviceValidate ==
    /\ facet = "qdevice" /\ pc = "validate"
    /\ IF params.state = "present" /\ params.qdevice = ""
       THEN Finish(FailJson([msg |-> MsgQdeviceRequired]))
       ELSE \E found \in BOOLEAN :
              IF found THEN pc' = "version" /\ UNCHANGED output
              ELSE Finish(FailJson([msg |-> MsgNoPcs]))
    /\ UNCHANGED << facet, params, check_mode, pcs_version, files, detected,
                    re_node_list_set, locals, todo, cmd, result, issued >>
    /\ UNCHANGED host_conf

\* lines 110-118: 'pcs --version'; anything but 0.10 is refused
QdeviceVersion ==
    /\ facet = "qdevice" /\ pc = "version"
    /\ \/ \E v \in PcsVersions :
            /\ pcs_version' = v
            /\ IF v # "0.10"
               THEN Finish(FailJson([msg |-> MsgUnsupportedQdevice]))
               ELSE pc' = "probe" /\ UNCHANGED output
       \/ /\ Finish(FailJson([msg |-> MsgVersionFailed]))
          /\ UNCHANGED pcs_version
    /\ UNCHANGED << facet, params, check_mode, files, detected, re_node_list_set, locals,
                    todo, cmd, result, issued >>
    /\ UNCHANGED host_conf

QdeviceAddCmd(p) ==
    [ verb |-> "quorum device add",
      words |-> << Word("opt", "model"), Word("opt", "net"),
                   Word("host", p.qdevice), Word("algorithm", p.algorithm) >> ]

QdeviceUpdateCmd(p) ==
    [ verb |-> "quorum device update",
      words |-> << Word("opt", "model"),
                   Word("host", p.qdevice), Word("algorithm", p.algorithm) >> ]

QdeviceRemoveCmd == [verb |-> "quorum device remove", words |-> << >>]

\* mutant: a sub-field missing from the device block is not a difference
QdeviceLocalsMissingAgrees(devices, p) ==
    IF Len(devices) = 0
    THEN [ no_conf |-> TRUE, config_qdevice_name_diff |-> FALSE,
           config_qdevice_algo_diff |-> FALSE, qd_name |-> << >>, algo_name |-> << >> ]
    ELSE LET qd_name == devices[1].host
             algo_name == devices[1].algorithm
         IN [ no_conf |-> FALSE,
              config_qdevice_name_diff |-> (Len(qd_name) > 0 /\ qd_name[1] # p.qdevice),
              config_qdevice_algo_diff |-> (Len(algo_name) > 0 /\ algo_name[1] # p.algorithm),
              qd_name |-> qd_name,
              algo_name |-> algo_name ]

\* mutant: the algorithm comparison is inverted
QdeviceLocalsInverted(devices, p) ==
    IF Len(devices) = 0
    THEN [ no_conf |-> TRUE, config_qdevice_name_diff |-> FALSE,
           config_qdevice_algo_diff |-> FALSE, qd_name |-> << >>, algo_name |-> << >> ]
    ELSE LET qd_name == devices[1].host
             algo_name == devices[1].algorithm
         IN [ no_conf |-> FALSE,
              config_qdevice_name_diff |-> (Len(qd_name) = 0 \/ qd_name[1] # p.qdevice),
              config_qdevice_algo_diff |-> (Len(algo_name) = 0 \/ algo_name[1] = p.algorithm),
              qd_name |-> qd_name,
              algo_name |-> algo_name ]

\* lines 133-151: what the first device block says against the parameters
QdeviceLocals(devices, p) ==
    IF Len(devices) = 0
    THEN [ no_conf |-> TRUE, config_qdevice_name_diff |-> FALSE,
           config_qdevice_algo_diff |-> FALSE, qd_name |-> << >>, algo_name |-> << >> ]
    ELSE LET qd_name == devices[1].host
             algo_name == devices[1].algorithm
         IN [ no_conf |-> FALSE,
              config_qdevice_name_diff |-> (Len(qd_name) = 0 \/ qd_name[1] # p.qdevice),
              config_qdevice_algo_diff |-> (Len(algo_name) = 0 \/ algo_name[1] # p.algorithm),
              qd_name |-> qd_name,
              algo_name |-> algo_name ]

\* lines 153-204 on the locals l: the command is chosen, a forbidden
\* mismatch fails, and outside check mode the command is run
QdeviceDecide(l) ==
    LET p == params
        add == l.no_conf /\ p.state = "present"
        upd == /\ ~add
               /\ (l.config_qdevice_name_diff \/ l.config_qdevice_algo_diff)
               /\ p.allowed_qdevice_changes # "none" /\ p.state = "present"
        del == ~add /\ ~upd /\ p.state = "absent" /\ ~l.no_conf
        update == add \/ upd \/ del
        c == IF add THEN QdeviceAddCmd(p)
             ELSE IF upd THEN QdeviceUpdateCmd(p)
             ELSE IF del THEN QdeviceRemoveCmd
             ELSE NoCmd
        r0 == IF add THEN [changed |-> TRUE, new_qdevice |-> p.qdevice,
                           new_algorithm |-> p.algorithm]
              ELSE IF upd THEN [changed |-> TRUE, old_qdevice |-> l.qd_name,
                                new_qdevice |-> p.qdevice, old_algorithm |-> l.algo_name,
                                new_algorithm |-> p.algorithm]
              ELSE IF del THEN [changed |-> TRUE, delete_qdevice |-> l.qd_name[1]]
              ELSE [changed |-> FALSE]
        forbidden == p.allowed_qdevice_changes = "none" /\ p.state = "present"
        name_bad == l.config_qdevice_name_diff /\ forbidden
        algo_bad == l.config_qdevice_algo_diff /\ forbidden
        msg == (IF name_bad THEN MsgQdeviceDiffers ELSE "")
               \o (IF algo_bad THEN MsgAlgorithmDiffers ELSE "")
        r1 == (IF name_bad THEN [qdevice |-> p.qdevice, qdevice_detected |-> l.qd_name]
               ELSE << >>)
              @@ (IF algo_bad THEN [algorithm |-> p.algorithm,
                                    algorithm_detected |-> l.algo_name]
                  ELSE << >>)
              @@ r0
    IN IF del /\ Len(l.qd_name) = 0
       THEN \* line 174: qd_name[0] of an empty list raises
            /\ Finish(FailJson([msg |-> MsgCrash]))
            /\ UNCHANGED << cmd, result, issued >>
       ELSE /\ cmd' = c
            /\ result' = r1
            /\ IF name_bad \/ algo_bad
               THEN Finish(FailJson([msg |-> msg] @@ r1)) /\ UNCHANGED issued
               ELSE IF ~check_mode /\ update
               THEN /\ issued' = Append(issued, c)
                    /\ \E rc \in {0, 1} :
                         IF rc = 0 THEN Finish(ExitJson(r1))
                         ELSE Finish(FailJson([msg |-> MsgQdeviceFailed, cmd |-> c]))
               ELSE Finish(ExitJson(r1)) /\ UNCHANGED issued

\* lines 120-204: corosync.conf is probed, opened and searched for device
\* blocks, then the decision is taken
QdeviceReconcile ==
    /\ facet = "qdevice" /\ pc = "probe"
    /\ \E conf \in QdeviceFiles :
         LET f == [cib_xml |-> FALSE, cluster_conf |-> FALSE,
                   corosync_conf |-> conf.kind # "missing"]
         IN /\ files' = f
            /\ IF params.state = "present" /\ ~f.corosync_conf
               THEN /\ Finish(FailJson([msg |-> MsgNeedCluster]))
                    /\ locals' = [probed |-> TRUE, parsed |-> FALSE]
                    /\ UNCHANGED << cmd, result, issued >>
               ELSE IF conf.kind # "file"
               THEN /\ Finish(FailJson([msg |-> MsgCannotOpen]))
                    /\ locals' = [probed |-> TRUE, parsed |-> FALSE]
                    /\ UNCHANGED << cmd, result, issued >>
               ELSE LET l == QdeviceLocals(conf.devices, params)
                    IN /\ locals' = [probed |-> TRUE, parsed |-> TRUE] @@ l
                       /\ QdeviceDecide(l)
    /\ UNCHANGED << facet, params, check_mode, pcs_version, detected, re_node_list_set,
                    todo >>
    /\ UNCHANGED host_conf

QdeviceNext ==
    \/ QdeviceInvoke
    \/ QdeviceValidate
    \/ QdeviceVersion
    \/ QdeviceReconcile

\* ------------------------------------------------------- pcs_stonith_level
\* highest fencing level drawn (the module accepts 1..9)
MaxLevel == 2
\* most fencing-level elements in the CIB
MaxFencingLevels == 2
StonithDevices == {"fence_xvm", "fence_kdump"}
StonithTargets == {"A", "B"}
CibFiles == {"", "/tmp/cib.xml"}

\* module.params; cib_file "" stands for a cib_file that was not given
StonithParams ==
    [ state : States,
      level : 1..MaxLevel,
      node_name : StonithTargets,
      stonith_device : StonithDevices,
      cib_file : CibFiles ]

\* a fencing-level element: its index, target and devices attributes
FencingLevels ==
    [ index : { ToString(i) : i \in 1..MaxLevel },
      target : StonithTargets,
      devices : StonithDevices ]

\* the fencing-level elements of a CIB, in document order
Cibs == UNION { [1..l -> FencingLevels] : l \in 0..MaxFencingLevels }

MsgCibParse == "Error encountered parsing the cib_file"
MsgCibNoFile == "cib_file is not a file or doesn't exists"
MsgCibLoad == "Failed to load cluster configuration"
MsgLevelCreateFailed == "Failed to create stonith level with cmd"
MsgLevelDeleteFailed == "Failed to delete stonith level with cmd"

\* lines 81-99
StonithInvoke ==
    /\ pc = "idle" /\ facet = "none"
    /\ facet' = "stonith"
    /\ \E p \in StonithParams : params' = p
    /\ \E c \in BOOLEAN : check_mode' = c
    /\ pc' = "validate"
    /\ UNCHANGED << pcs_version, files, detected, re_node_list_set, locals, todo, cmd,
                    result, output, issued >>
    /\ UNCHANGED host_conf

\* lines 101-102: find_executable('pcs')
StonithValidate ==
    /\ facet = "stonith" /\ pc = "validate"
    /\ \E found \in BOOLEAN :
         IF found THEN pc' = "probe" /\ UNCHANGED output
         ELSE Finish(FailJson([msg |-> MsgNoPcs]))
    /\ UNCHANGED << facet, params, check_mode, pcs_version, files, detected,
                    re_node_list_set, locals, todo, cmd, result, issued >>
    /\ UNCHANGED host_conf

\* mutant: the devices attribute is not compared
FindFencingLevelAnyDevices(cib, p) ==
    LET hits == { i \in 1..Len(cib) :
                    /\ cib[i].index = ToString(p.level)
                    /\ cib[i].target = p.node_name }
    IN IF hits = {} THEN << >>
       ELSE << cib[CHOOSE i \in hits : \A j \in hits : i <= j] >>

\* lines 124-133: the first element that equals the triple in all three
\* attributes, as a list of at most one element
FindFencingLevel(cib, p) ==
    LET hits == { i \in 1..Len(cib) :
                    /\ cib[i].index = ToString(p.level)
                    /\ cib[i].target = p.node_name
                    /\ cib[i].devices = p.stonith_device }
    IN IF hits = {} THEN << >>
       ELSE << cib[CHOOSE i \in hits : \A j \in hits : i <= j] >>

CibFileWords(p) ==
    IF p.cib_file = "" THEN << >> ELSE << Word("opt", "-f"), Word("opt", p.cib_file) >>

LevelWords(p) ==
    << Word("level", ToString(p.level)), Word("target", p.node_name),
       Word("devices", p.stonith_device) >>

\* cmd_create
LevelAddCmd(p) == [verb |-> "stonith level add", words |-> CibFileWords(p) \o LevelWords(p)]
\* cmd_delete
LevelRemoveCmd(p) ==
    [verb |-> "stonith level remove", words |-> CibFileWords(p) \o LevelWords(p)]

\* lines 124-178 on the fencing-level elements of the loaded CIB
StonithDecide(cib) ==
    LET p == params
        fencing_level == FindFencingLevel(cib, p)
        matched == fencing_level # << >>
        r0 == IF matched
              THEN [ fence_level_was_matched |-> TRUE,
                     level |-> fencing_level[1].index,
                     node_name |-> fencing_level[1].target,
                     devices |-> fencing_level[1].devices ]
              ELSE [ fence_level_was_matched |-> FALSE ]
        change == (p.state = "present") # matched
        r == [changed |-> change] @@ r0
        c == IF p.state = "present" THEN LevelAddCmd(p) ELSE LevelRemoveCmd(p)
    IN /\ locals' = [probed |-> TRUE, parsed |-> TRUE, cib |-> cib,
                     fencing_level |-> fencing_level]
       /\ result' = r
       /\ IF change /\ ~check_mode
          THEN /\ cmd' = c
               /\ issued' = Append(issued, c)
               /\ \E rc \in {0, 1} :
                    IF rc = 0 THEN Finish(ExitJson(r))
                    ELSE Finish(FailJson([msg |-> IF p.state = "present"
                                                  THEN MsgLevelCreateFailed
                                                  ELSE MsgLevelDeleteFailed,
                                          cmd |-> c]))
          ELSE /\ Finish(ExitJson(r))
               /\ UNCHANGED << cmd, issued >>

\* lines 104-178: the CIB is read from cib_file or asked of the running
\* cluster, then searched and the decision is taken
StonithReconcile ==
    /\ facet = "stonith" /\ pc = "probe"
    /\ \/ \E cib \in Cibs : StonithDecide(cib)
       \/ /\ Finish(FailJson([msg |-> IF params.cib_file = "" THEN MsgCibLoad
                                      ELSE MsgCibParse]))
          /\ UNCHANGED << locals, cmd, result, issued >>
       \/ /\ params.cib_file # ""
          /\ Finish(FailJson([msg |-> MsgCibNoFile]))
          /\ UNCHANGED << locals, cmd, result, issued >>
    /\ UNCHANGED << facet, params, check_mode, pcs_version, files, detected,
                    re_node_list_set, todo >>
    /\ UNCHANGED host_conf

StonithNext ==
    \/ StonithInvoke
    \/ StonithValidate
    \/ StonithReconcile

Next == ClusterNext \/ QdeviceNext \/ StonithNext


Spec == Init /\ [][Next]_vars

\* ------------------------------------------- pcs_cluster, invoked repeatedly
\* The same task is run again and again on one host: state=present, a fixed
\* node_list, cluster_name and policy add or remove, no check mode. pcs is
\* installed and answers the version query (lines 164-172 pass), corosync.conf
\* exists and is readable, every command exits with 0 and takes effect on
\* corosync.conf.
RepeatedParams ==
    { p \in ClusterParams :
        /\ p.state = "present" /\ p.node_list # << >> /\ p.cluster_name # ""
        /\ p.transport = "default" /\ p.transport_options = ""
        /\ p.allowed_node_changes \in {"add", "remove"} }

ConvergeInit ==
    /\ facet = "cluster"
    /\ pc = "probe"
    /\ params \in RepeatedParams
    /\ check_mode = FALSE
    /\ pcs_version \in PcsVersions
    /\ files = NoFiles
    /\ detected = {}
    /\ re_node_list_set = << >>
    /\ locals = NoLocals
    /\ todo = {}
    /\ cmd = NoCmd
    /\ result = [changed |-> FALSE]
    /\ output = NoOutput
    /\ issued = << >>
    /\ host_conf \in CorosyncConfs

\* lines 174-314 on the corosync.conf of the host
ConvergeReconcile ==
    ClusterReconcileOn({ [kind |-> "file", blocks |-> host_conf] })

\* what a successful 'pcs cluster node add' / 'node remove' does to the node
\* blocks of corosync.conf: the named node gets a block with the addresses
\* given for it, or loses its block
CommandEffect(conf, c) ==
    LET n == c.words[1].val
        rings == SelectSeq(c.words, LAMBDA w : w.kind = "ring")
        addrs == SelectSeq(c.words, LAMBDA w : w.kind = "addr")
        more == IF addrs # << >> THEN Tail(addrs) ELSE rings
        others == { b \in conf : b.ring0 # n }
    IN IF c.verb = "cluster node add"
         THEN others \cup { [ring0 |-> n, more |-> [i \in 1..Len(more) |-> more[i].val]] }
       ELSE IF c.verb = "cluster node remove"
         THEN others
       ELSE conf

\* lines 260-287 with commands that succeed and take effect
ConvergeLoop ==
    /\ ClusterLoopOn({0})
    /\ host_conf' = IF Len(issued') > Len(issued)
                    THEN CommandEffect(host_conf, issued'[Len(issued')])
                    ELSE host_conf

\* the task is run again: a new run_module starts with fresh locals
ConvergeReinvoke ==
    /\ facet = "cluster" /\ pc = "done"
    /\ pc' = "probe"
    /\ files' = NoFiles
    /\ detected' = {}
    /\ re_node_list_set' = << >>
    /\ locals' = NoLocals
    /\ todo' = {}
    /\ cmd' = NoCmd
    /\ result' = [changed |-> FALSE]
    /\ output' = NoOutput
    /\ issued' = << >>
    /\ UNCHANGED << facet, params, check_mode, pcs_version, host_conf >>

ConvergeNext ==
    \/ ConvergeReconcile
    \/ ConvergeLoop
    \/ ConvergeReinvoke

\* the task is repeated for ever: a run that has started goes on, and a
\* finished run is followed by the next one
SpecConverge == ConvergeInit /\ [][ConvergeNext]_vars /\ WF_vars(ConvergeNext)

\* ---------------------------------------------------------------- claims
\* the desired node-name set of the running pcs_cluster invocation
Desired == NodeListSet(params.node_list)

\* pcs_cluster has probed the files and, if corosync.conf exists, parsed it
ClusterProbed == facet = "cluster" /\ locals.probed /\ locals.parsed

\* a detected membership topology exists
DetectedExists == ClusterProbed /\ files.corosync_conf

\* the node a node-add or node-remove command names
Target(c) == c.words[1].val

\* how often command c names node n
TimesNamed(c, n) == Cardinality({ i \in 1..Len(c.words) : c.words[i] = Word("name", n) })

IssuedVerbs == { issued[i].verb : i \in 1..Len(issued) }

\* C1: state=present, a non-empty node list, a supported dialect and no
\* membership config to parse: exactly one cluster-setup command is issued
\* and it names every desired node once and no other node. (Stated for the
\* runs that are not cut short by check mode or by a refused
\* transport_options value.)
C1_CreateFromDesired ==
    ( /\ ClusterProbed /\ Finished
      /\ params.state = "present" /\ params.node_list # << >>
      /\ pcs_version \in {"0.9", "0.10"}
      /\ ~files.corosync_conf
      /\ ~check_mode
      /\ params.transport_options = "" )
    => /\ Len(issued) = 1
       /\ issued[1].verb = "cluster setup"
       /\ \A n \in Nodes : TimesNamed(issued[1], n) = IF n \in Desired THEN 1 ELSE 0

\* C2: state=present, a detected topology whose node names differ from the
\* desired ones and allowed_node_changes=none: the invocation fails with the
\* conflict message, reports both node sets and issues no command.
C2_ConflictUnderNone ==
    ( /\ DetectedExists
      /\ params.state = "present"
      /\ params.allowed_node_changes = "none"
      /\ Desired # detected )
    => /\ FailedWith(MsgConflict)
       /\ output.node_list_set = Desired
       /\ output.detected_node_list_set = detected
       /\ issued = << >>

C2_Witness ==
    /\ facet = "cluster" /\ FailedWith(MsgConflict)
    /\ detected = {"A", "B"} /\ Desired = {"A", "C"}
    /\ output.node_list_set = {"A", "C"}

\* C3: state=present with a detected topology: under policy add every
\* issued command is a node add of a node of desired - detected, under
\* policy remove every issued command is a node remove of a node of
\* detected - desired, no conflict is reported under either, and node add
\* and node remove never both occur.
C3_SingleDirection ==
    ( DetectedExists /\ params.state = "present" )
    => /\ params.allowed_node_changes = "add" =>
            /\ \A i \in 1..Len(issued) :
                  /\ issued[i].verb = "cluster node add"
                  /\ Target(issued[i]) \in Desired \ detected
            /\ ~FailedWith(MsgConflict)
       /\ params.allowed_node_changes = "remove" =>
            /\ \A i \in 1..Len(issued) :
                  /\ issued[i].verb = "cluster node remove"
                  /\ Target(issued[i]) \in detected \ Desired
            /\ ~FailedWith(MsgConflict)
       /\ ~({"cluster node add", "cluster node remove"} \subseteq IssuedVerbs)

C3_Witness ==
    /\ DetectedExists /\ Exited
    /\ params.state = "present" /\ params.allowed_node_changes = "add"
    /\ detected = {"A", "B"} /\ Desired = {"A", "C"}
    /\ Len(issued) = 1 /\ Target(issued[1]) = "C"

\* C4: a batch of several nodes is worked off node by node: when the
\* invocation ends successfully outside check mode, every node of
\* desired - detected (policy add) or detected - desired (policy remove) has
\* had its command issued.
C4_WholeBatchIssued ==
    ( /\ DetectedExists /\ Exited /\ ~check_mode
      /\ params.state = "present"
      /\ params.allowed_node_changes # "none"
      /\ Desired # detected )
    => \A n \in ( IF params.allowed_node_changes = "add"
                  THEN Desired \ detected ELSE detected \ Desired ) :
          \E i \in 1..Len(issued) : Target(issued[i]) = n

\* the rings the caller gave for node n, ring1 onwards
DesiredRings(n) == Tail(NodeListSetDetailed(params.node_list)[n])

\* C5: state=present and a detected topology with the desired node names:
\* changed=false and no command, whatever the policy, the dialect and the
\* ring 1.. addresses are.
C5_EqualNamesNoOp ==
    ( DetectedExists /\ params.state = "present" /\ Desired = detected )
    => /\ Exited
       /\ output.changed = FALSE
       /\ issued = << >>

C5_Witness ==
    /\ DetectedExists /\ Exited /\ params.state = "present"
    /\ Desired = detected /\ Desired = {"A", "B"}
    /\ \E n \in Desired : DesiredRings(n) # re_node_list_set[n]
    /\ params.allowed_node_changes = "remove"
    /\ pcs_version = "0.9"
    /\ output.changed = FALSE

\* one of the three probed configuration files exists
SomeConfigFile == files.cib_xml \/ files.cluster_conf \/ files.corosync_conf

\* the invocation ended as a NoOp: exit_json with changed=false, no command
NoOp == Exited /\ output.changed = FALSE /\ issued = << >>

\* C6: state=absent with nothing configured ends as a changed=false NoOp
\* and never fails, in pcs_cluster (no configuration file exists), in
\* pcs_quorum_qdevice (no corosync.conf, or no device block in it) and in
\* pcs_stonith_level (no fencing-level element equals the triple).
C6_AbsentUnconfiguredNoOp ==
    /\ ( facet = "cluster" /\ Finished /\ locals.probed
         /\ params.state = "absent" /\ ~SomeConfigFile ) => NoOp
    /\ ( facet = "qdevice" /\ Finished /\ locals.probed
         /\ params.state = "absent"
         /\ ( ~files.corosync_conf \/ (locals.parsed /\ locals.no_conf) ) ) => NoOp
    /\ ( facet = "stonith" /\ Finished /\ locals.probed
         /\ params.state = "absent" /\ locals.fencing_level = << >> ) => NoOp

\* C7: a pcs version that the module does not support ends the invocation
\* in the unsupported-version failure with no command issued: pcs_cluster
\* for every version but 0.9 and 0.10, pcs_quorum_qdevice for every version
\* but 0.10.
C7_UnsupportedVersionFatal ==
    /\ ( facet = "cluster" /\ Finished /\ locals.probed /\ locals.parsed
         /\ pcs_version \notin {"0.9", "0.10"} )
       => FailedWith(MsgUnsupported) /\ issued = << >>
    /\ ( facet = "qdevice" /\ Finished /\ pcs_version \notin {"", "0.10"} )
       => FailedWith(MsgUnsupportedQdevice) /\ issued = << >>

\* C8: under pcs 0.9 every pcs_cluster invocation with a non-empty
\* transport_options ends in the validation failure with no command issued.
C8_OptionsRefusedUnder09 ==
    ( ClusterProbed /\ Finished
      /\ pcs_version = "0.9" /\ params.transport_options # "" )
    => FailedWith(MsgNoOptions09) /\ issued = << >>

\* C9: under pcs 0.10 every pcs_cluster invocation with a non-empty
\* transport_options and transport=default ends in the validation failure
\* with no command issued.
C9_OptionsNeedTransportUnder010 ==
    ( ClusterProbed /\ Finished
      /\ pcs_version = "0.10"
      /\ params.transport_options # "" /\ params.transport = "default" )
    => FailedWith(MsgOptionsNeedTransport) /\ issued = << >>

\* state=absent and the probes of pcs_cluster found a configuration file
AbsentConfigured ==
    facet = "cluster" /\ Finished /\ locals.probed
    /\ params.state = "absent" /\ SomeConfigFile

DeviceDetected == facet = "qdevice" /\ locals.probed /\ locals.parsed /\ ~locals.no_conf

\* the detected host / algorithm is missing or differs from the parameter
HostMismatch == locals.qd_name = << >> \/ locals.qd_name[1] # params.qdevice
AlgorithmMismatch == locals.algo_name = << >> \/ locals.algo_name[1] # params.algorithm

\* C11: state=present, a device block detected, allowed_qdevice_changes=none
\* and the host, the algorithm or both mismatched (a missing sub-field is a
\* mismatch): the invocation fails, its one message names every mismatched
\* field and no other, the detected values of the mismatched fields are
\* reported, and no qdevice command is issued.
C11_QdeviceConflict ==
    ( /\ DeviceDetected
      /\ params.state = "present" /\ params.allowed_qdevice_changes = "none"
      /\ (HostMismatch \/ AlgorithmMismatch) )
    => /\ Failed
       /\ output.msg = (IF HostMismatch THEN MsgQdeviceDiffers ELSE "")
                       \o (IF AlgorithmMismatch THEN MsgAlgorithmDiffers ELSE "")
       /\ HostMismatch => output.qdevice_detected = locals.qd_name
       /\ AlgorithmMismatch => output.algorithm_detected = locals.algo_name
       /\ issued = << >>

C11_Witness ==
    /\ DeviceDetected /\ Failed
    /\ params.state = "present" /\ params.allowed_qdevice_changes = "none"
    /\ locals.qd_name = << >> /\ locals.algo_name = << "lms" >>
    /\ params.algorithm = "ffsplit"
    /\ output.msg = MsgQdeviceDiffers \o MsgAlgorithmDiffers

\* C12: the qdevice update command is issued only with state=present, a
\* device block detected, allowed_qdevice_changes=update and a mismatch of
\* host or algorithm.
C12_UpdateOnlyWhenAllowedAndDifferent ==
    ( facet = "qdevice"
      /\ \E i \in 1..Len(issued) : issued[i].verb = "quorum device update" )
    => /\ DeviceDetected
       /\ params.state = "present"
       /\ params.allowed_qdevice_changes = "update"
       /\ (HostMismatch \/ AlgorithmMismatch)

C12_Witness ==
    /\ DeviceDetected /\ Exited
    /\ issued = << QdeviceUpdateCmd(params) >>
    /\ ~HostMismatch /\ AlgorithmMismatch
    /\ output.changed = TRUE

\* pcs_stonith_level has loaded the CIB and taken its decision
StonithDecided == facet = "stonith" /\ locals.probed /\ locals.parsed

\* the (level, target, devices) triple of the parameters as a CIB element
Triple ==
    [ index |-> ToString(params.level), target |-> params.node_name,
      devices |-> params.stonith_device ]

\* some fencing-level element of the loaded CIB equals the triple
TripleRecorded == \E i \in 1..Len(locals.cib) : locals.cib[i] = Triple

\* the positional arguments of a stonith level command
LevelArgs(c) == SelectSeq(c.words, LAMBDA w : w.kind # "opt")

TripleArgs ==
    << Word("level", Triple.index), Word("target", Triple.target),
       Word("devices", Triple.devices) >>

\* the outcome of a stonith run that has to change the fencing topology with
\* the given verb; quiet tells whether commands are withheld
LevelChange(verb, quiet) ==
    /\ IF quiet THEN issued = << >> /\ Exited
       ELSE /\ Len(issued) = 1
            /\ issued[1].verb = verb
            /\ LevelArgs(issued[1]) = TripleArgs
    /\ Exited => output.changed = TRUE
    /\ Failed => output.msg = (IF verb = "stonith level add" THEN MsgLevelCreateFailed
                               ELSE MsgLevelDeleteFailed)

LevelNoOp == Exited /\ output.changed = FALSE /\ issued = << >>

\* the four-way decision on exact equality of the full triple
LevelDecision(quiet) ==
    StonithDecided =>
       /\ (locals.fencing_level # << >>) = TripleRecorded
       /\ TripleRecorded => locals.fencing_level = << Triple >>
       /\ (params.state = "present" /\ ~TripleRecorded) => LevelChange("stonith level add", quiet)
       /\ (params.state = "present" /\ TripleRecorded) => LevelNoOp
       /\ (params.state = "absent" /\ TripleRecorded) => LevelChange("stonith level remove", quiet)
       /\ (params.state = "absent" /\ ~TripleRecorded) => LevelNoOp

\* C13 as stated: the decision is taken on exact equality of the full
\* (level, target, devices) triple; Create and Delete issue one command naming
\* the triple and report changed=true, both NoOps issue none and report
\* changed=false.
C13_TripleDecisionAlways == LevelDecision(FALSE)

\* C13 amended: as above outside check mode; in check mode Create and Delete
\* report changed=true and issue no command.
C13_TripleDecisionOutsideCheckMode == LevelDecision(check_mode)

C13_Witness ==
    /\ StonithDecided /\ Exited /\ ~check_mode
    /\ params.state = "absent"
    /\ Len(locals.cib) = 2
    /\ locals.cib[1].index = Triple.index /\ locals.cib[1].target = Triple.target
    /\ locals.cib[1].devices # Triple.devices
    /\ locals.cib[2] = Triple
    /\ Len(issued) = 1 /\ issued[1].verb = "stonith level remove"
    /\ output.changed = TRUE

\* the words of a command that render nodes
NodeWords(c) == SelectSeq(c.words, LAMBDA w : w.kind \in {"name", "addr", "ring"})

\* in the words W the name of node n stands at position i and is followed by
\* one addr= word for each of the node's rings first..N, in ring-index
\* order, and by no further addr= word
RenderedAt(W, i, n, first) ==
    LET d == NodeListSetDetailed(params.node_list)[n]
        m == Len(d) - first
    IN /\ i + m <= Len(W)
       /\ W[i] = Word("name", n)
       /\ \A j \in 1..m : W[i + j] = Word("addr", d[first + j])
       /\ i + m < Len(W) => W[i + m + 1].kind = "name"

\* the pcs 0.10 rendering of the nodes in command c, ring `first` being the
\* lowest ring that gets an addr= word (ring 0 is d[1], so first = 0 renders
\* every ring and first = 1 renders rings 1..N)
MultiLinkRendering(c, first) ==
    LET W == NodeWords(c)
        d == NodeListSetDetailed(params.node_list)
    IN /\ c.verb = "cluster setup" /\ HasComma(params.node_list) =>
            /\ W[1].kind = "name"
            /\ \A k \in 1..Len(W) : W[k].kind # "ring"
            /\ \A k \in 1..Len(W) : W[k].kind = "name" => W[k].val \in Desired
            /\ \A n \in Desired :
                 \E i \in 1..Len(W) :
                    /\ RenderedAt(W, i, n, first)
                    /\ \A k \in 1..Len(W) : W[k] = Word("name", n) => k = i
       /\ c.verb = "cluster node add" /\ Len(d[Target(c)]) > 1 =>
            /\ RenderedAt(W, 1, Target(c), first)
            /\ Len(W) = 1 + Len(d[Target(c)]) - first
       /\ c.verb = "cluster node add" /\ Len(d[Target(c)]) = 1 =>
            W = << Word("name", Target(c)) >>

\* C14 as stated: under pcs 0.10 every node of a multi-link setup command and
\* every node added with more than one ring is rendered as its bare name and
\* one addr= word per ring 1..N, ring 0 having no addr= word; a node added
\* with ring 0 only is the bare name.
C14_AddrFromRing1 ==
    ( facet = "cluster" /\ pcs_version = "0.10" )
    => \A i \in 1..Len(issued) : MultiLinkRendering(issued[i], 1)

\* C14 amended: the same with one addr= word per ring 0..N, the ring 0 word
\* repeating the node name.
C14_AddrFromRing0 ==
    ( facet = "cluster" /\ pcs_version = "0.10" )
    => \A i \in 1..Len(issued) : MultiLinkRendering(issued[i], 0)

C14_Witness ==
    /\ facet = "cluster" /\ pcs_version = "0.10" /\ Exited
    /\ Cardinality(Desired) = 2
    /\ Len(issued) = 1 /\ issued[1].verb = "cluster setup"
    /\ \E n \in Desired :
         /\ Len(NodeListSetDetailed(params.node_list)[n]) = 3
         /\ RenderedAt(NodeWords(issued[1]), 5, n, 0)

\* C15: a pcs_cluster invocation outside check mode that exits reporting
\* changed=true has issued at least one command.
C15_ChangedMeansCommand ==
    ( /\ facet = "cluster" /\ Exited /\ ~check_mode
      /\ "changed" \in DOMAIN output /\ output.changed = TRUE )
    => issued # << >>

\* C16: for a fixed desired node list, state=present and policy add or
\* remove, with commands that succeed and take effect, the repeated
\* invocations reach one that reports changed=false and issues no command,
\* and from then on every invocation ends so.
C16_Converges == <>[](Finished => NoOp)
====
